---- MODULE Spec2Model ----
(***************************************************************************)
(* napkin-calc: the reactive constraint engine (core/engine.py) with its   *)
(* rate store (core/time_converter.py) and the conversion tables           *)
(* (core/constants.py).                                                    *)
(*                                                                         *)
(* Numbers are Python decimal.Decimal values.  A Decimal is modelled as a  *)
(* record [c, e] standing for c * 10^e, kept normalised (c = 0 => e = 0,   *)
(* otherwise 10 does not divide c), so that record equality is Decimal's   *)
(* numeric equality.  Every arithmetic result is rounded half-even to Prec *)
(* significant digits, as the decimal context does (the context's 28       *)
(* digits are scaled down to Prec, TLC integers being 32 bits wide).  The  *)
(* context's exponent range is kept as it is.                              *)
(***************************************************************************)
EXTENDS Integers, Sequences, FiniteSets, TLC

\* ------------------------------------------------------------------ bounds
\* Significant digits kept by an arithmetic result (decimal context prec).
Prec == 3
\* Number of engine calls explored in one run.
MaxCalls == 3

\* ---------------------------------------------------------------- Decimal
RECURSIVE Pow10(_)
Pow10(n) == IF n <= 0 THEN 1 ELSE 10 * Pow10(n - 1)

RECURSIVE NumDigits(_)
NumDigits(n) == IF n < 10 THEN 1 ELSE 1 + NumDigits(n \div 10)

Abs(n) == IF n < 0 THEN -n ELSE n
Sign(n) == IF n < 0 THEN -1 ELSE 1

\* Decimal's numeric comparison ignores trailing zeros of the coefficient.
RECURSIVE Norm(_, _)
Norm(c, e) ==
    IF c = 0 THEN [c |-> 0, e |-> 0]
    ELSE IF c % 10 = 0 THEN Norm(c \div 10, e + 1)
    ELSE [c |-> c, e |-> e]

\* Decimal("n") for an integer literal n.
Dec(n) == Norm(n, 0)
Zero == Dec(0)

\* The largest adjusted exponent of the default decimal context (Emax): a
\* result beyond it raises decimal.Overflow.
Emax == Pow10(6) - 1

\* The smallest exponent of a result (Etiny = Emin - prec + 1, Emin = -Emax):
\* a result is rounded to this exponent when it has digits below it, and
\* that raises nothing (the Underflow trap is off).
Etiny == 1 - Emax - Prec

Max(a, b) == IF a >= b THEN a ELSE b

\* The discarded part of a coefficient against one half of the last kept
\* unit: 1 above, -1 below, 0 exactly half (rest: digits follow lo).
HalfCompare(lo, half, rest) ==
    IF lo > half THEN 1 ELSE IF lo < half THEN -1 ELSE IF rest THEN 1 ELSE 0

\* ROUND_HALF_EVEN: hi goes up when more than half is discarded, or exactly
\* half and hi is odd.
Rounded(sgn, hi, cmp, e) ==
    Norm(sgn * (IF cmp = 1 \/ (cmp = 0 /\ hi % 2 = 1) THEN hi + 1 ELSE hi), e)

\* The last j digits of q, and the fraction rnum/rden after them, discarded.
Discard(sgn, q, rnum, rden, e, j) ==
    IF j > NumDigits(q) THEN Zero
    ELSE IF j = 0 THEN Rounded(sgn, q, HalfCompare(2 * rnum, rden, FALSE), e)
    ELSE Rounded(sgn, q \div Pow10(j),
                 HalfCompare(q % Pow10(j), 5 * Pow10(j - 1), rnum > 0), e + j)

\* Round (q + rnum/rden) * 10^e, q >= 0, 0 <= rnum < rden, to Prec
\* significant digits and to no exponent below Etiny, ROUND_HALF_EVEN; sgn
\* is the sign of the result.
RoundHalfEven(sgn, q, rnum, rden, e) ==
    Discard(sgn, q, rnum, rden, e, Max(0, Max(NumDigits(q) - Prec, Etiny - e)))

\* The product a * b of two naturals, 0 < a <= b, as <<top, low, shift>>,
\* a * b = (top + low / 10^5) * 10^shift, computed without leaving the
\* 32-bit integers (a < 10^4 when b is beyond 10^5).
SplitProduct(a, b) ==
    IF a <= Pow10(9) \div b THEN <<a * b, 0, 0>>
    ELSE <<a * (b \div Pow10(5)) + (a * (b % Pow10(5))) \div Pow10(5),
           (a * (b % Pow10(5))) % Pow10(5),
           5>>

RoundProduct(sgn, p, e) == RoundHalfEven(sgn, p[1], p[2], Pow10(5), e + p[3])

\* Decimal.__mul__: exact product, rounded to the context precision.
DecMul(x, y) ==
    IF x.c = 0 \/ y.c = 0 THEN Zero
    ELSE RoundProduct(Sign(x.c) * Sign(y.c),
                      SplitProduct(-Max(-Abs(x.c), -Abs(y.c)),
                                   Max(Abs(x.c), Abs(y.c))),
                      x.e + y.e)

\* One step of long division: <<digit, remainder>> of 10 * r by d, r < d, by
\* ten additions where 10 * r is beyond the 32-bit integers.
RECURSIVE TimesTenBy(_, _, _, _, _)
TimesTenBy(r, d, acc, digit, i) ==
    IF i = 0 THEN <<digit, acc>>
    ELSE IF acc + r >= d
    THEN TimesTenBy(r, d, acc + r - d, digit + 1, i - 1)
    ELSE TimesTenBy(r, d, acc + r, digit, i - 1)

TimesTen(r, d) ==
    IF r <= Pow10(8) THEN <<(10 * r) \div d, (10 * r) % d>>
    ELSE TimesTenBy(r, d, 0, 0, 10)

\* Long division: quotient digits are appended to q until it has Prec
\* significant digits or the division is exact; <<q, r, k>> with
\* n * 10^k = q * d + r.
RECURSIVE LongDiv(_, _, _, _)
RECURSIVE LongDivStep(_, _, _, _)
LongDivStep(q, step, d, k) == LongDiv(10 * q + step[1], step[2], d, k + 1)

LongDiv(q, r, d, k) ==
    IF q >= Pow10(Prec - 1) \/ r = 0 THEN <<q, r, k>>
    ELSE LongDivStep(q, TimesTen(r, d), d, k)

\* The quotient digits of n by d, the zeros that open the quotient skipped
\* in one step.
Quotient(n, d, skip) ==
    LongDiv((n * Pow10(skip)) \div d, (n * Pow10(skip)) % d, d, skip)

RoundQuotient(sgn, qr, d, e) == RoundHalfEven(sgn, qr[1], qr[2], d, e - qr[3])

\* Decimal.__truediv__ for a non-zero divisor: the quotient rounded to the
\* context precision (an exact quotient is returned exactly).
DecDiv(x, y) ==
    IF x.c = 0 THEN Zero
    ELSE RoundQuotient(Sign(x.c) * Sign(y.c),
                       Quotient(Abs(x.c), Abs(y.c),
                                Max(0, NumDigits(Abs(y.c)) - NumDigits(Abs(x.c)) - 1)),
                       Abs(y.c),
                       x.e - y.e)

\* Decimal("1E+999999"), the largest power of ten of the context.
Huge == [c |-> 1, e |-> Emax]

\* x, the exact value of a result before the exponent check, is too large.
Overflows(x) == x.c # 0 /\ NumDigits(Abs(x.c)) + x.e - 1 > Emax

\* The exception a multiplication or a division raises, NoRaise when none
\* (a zero divisor: DivisionByZero, or InvalidOperation when 0 / 0).
NoRaise == "-"
MulRaises(x, y) == IF Overflows(DecMul(x, y)) THEN "Overflow" ELSE NoRaise
DivRaises(x, y) ==
    IF y.c = 0 THEN "DivisionByZero"
    ELSE IF Overflows(DecDiv(x, y)) THEN "Overflow"
    ELSE NoRaise

\* Text is a sequence of characters.
DigitChars == <<"0", "1", "2", "3", "4", "5", "6", "7", "8", "9">>

IsDigit(ch) == \E d \in 1..10 : DigitChars[d] = ch
DigitValue(ch) == (CHOOSE d \in 1..10 : DigitChars[d] = ch) - 1

\* The digits of a natural number.
RECURSIVE DigitsOf(_)
DigitsOf(n) ==
    IF n < 10 THEN <<DigitChars[n + 1]>>
    ELSE Append(DigitsOf(n \div 10), DigitChars[(n % 10) + 1])

\* The natural number that a sequence of digits writes (0 for no digit).
RECURSIVE NatOf(_)
NatOf(digits) ==
    IF digits = << >> THEN 0
    ELSE 10 * NatOf(SubSeq(digits, 1, Len(digits) - 1))
         + DigitValue(digits[Len(digits)])

\* The number of digits that follow one another in text from position i on.
RECURSIVE DigitRun(_, _)
DigitRun(text, i) ==
    IF i <= Len(text) /\ IsDigit(text[i]) THEN 1 + DigitRun(text, i + 1) ELSE 0

Zeros(k) == [i \in 1..k |-> "0"]

\* Variant: writes no exponent.
Decimal_str_plain(x) ==
    LET int == DigitsOf(Abs(x.c))
        leftdigits == x.e + Len(int)
        dotplace == IF x.e <= 0 /\ leftdigits > -6 THEN leftdigits ELSE 1
        intpart == IF dotplace <= 0 THEN <<"0">>
                   ELSE IF dotplace >= Len(int) THEN int \o Zeros(dotplace - Len(int))
                   ELSE SubSeq(int, 1, dotplace)
        fracpart == IF dotplace <= 0 THEN <<".">> \o Zeros(-dotplace) \o int
                    ELSE IF dotplace >= Len(int) THEN << >>
                    ELSE <<".">> \o SubSeq(int, dotplace + 1, Len(int))
        sign == IF x.c < 0 THEN <<"-">> ELSE << >>
    IN sign \o intpart \o fracpart

\* Decimal.__str__ (scientific notation when the exponent is positive or the
\* number has more than six zeros after the point), applied to the
\* normalised number.
Decimal_str(x) ==
    LET int == DigitsOf(Abs(x.c))
        leftdigits == x.e + Len(int)
        dotplace == IF x.e <= 0 /\ leftdigits > -6 THEN leftdigits ELSE 1
        intpart == IF dotplace <= 0 THEN <<"0">>
                   ELSE IF dotplace >= Len(int) THEN int \o Zeros(dotplace - Len(int))
                   ELSE SubSeq(int, 1, dotplace)
        fracpart == IF dotplace <= 0 THEN <<".">> \o Zeros(-dotplace) \o int
                    ELSE IF dotplace >= Len(int) THEN << >>
                    ELSE <<".">> \o SubSeq(int, dotplace + 1, Len(int))
        exp == IF leftdigits = dotplace THEN << >>
               ELSE <<"E", IF leftdigits < dotplace THEN "-" ELSE "+">>
                    \o DigitsOf(Abs(leftdigits - dotplace))
        sign == IF x.c < 0 THEN <<"-">> ELSE << >>
    IN sign \o intpart \o fracpart \o exp

\* Decimal(text): an optional sign, digits with an optional point, an
\* optional exponent; ok is FALSE where the constructor raises
\* InvalidOperation.  The value is exact, whatever the context precision.
\* (Texts with blanks around them, with underscores, or naming an infinity or
\* a NaN, which the constructor takes too, are not among the texts used.)
Decimal_of(text) ==
    LET n == Len(text)
        has_sign == n >= 1 /\ text[1] \in {"+", "-"}
        p0 == IF has_sign THEN 2 ELSE 1
        ni == DigitRun(text, p0)
        p1 == p0 + ni
        has_point == p1 <= n /\ text[p1] = "."
        nf == IF has_point THEN DigitRun(text, p1 + 1) ELSE 0
        p2 == IF has_point THEN p1 + 1 + nf ELSE p1
        has_exp == p2 <= n /\ text[p2] \in {"E", "e"}
        has_exp_sign == has_exp /\ p2 + 1 <= n /\ text[p2 + 1] \in {"+", "-"}
        p3 == IF has_exp_sign THEN p2 + 2 ELSE p2 + 1
        ne == IF has_exp THEN DigitRun(text, p3) ELSE 0
        end == IF has_exp THEN p3 + ne ELSE p2
        ok == ni + nf >= 1 /\ (has_exp => ne >= 1) /\ end = n + 1
        coefficient == NatOf(SubSeq(text, p0, p1 - 1) \o SubSeq(text, p1 + 1, p2 - 1))
        exponent == IF ~has_exp THEN 0
                    ELSE IF has_exp_sign /\ text[p2 + 1] = "-"
                    THEN -NatOf(SubSeq(text, p3, end - 1))
                    ELSE NatOf(SubSeq(text, p3, end - 1))
        sgn == IF has_sign /\ text[1] = "-" THEN -1 ELSE 1
    IN [ok |-> ok,
        value |-> IF ok THEN Norm(sgn * coefficient, exponent - nf) ELSE Zero]

\* ------------------------------------------------------------- constants.py
TimeUnit == {"SECOND", "MINUTE", "HOUR", "DAY", "MONTH", "YEAR"}

\* The exact factors of TERABYTE, PETABYTE and EXABYTE (1024^4 .. 1024^6) are
\* beyond TLC's integers; the model keeps the units below them.
DataSizeUnit == {"BYTE", "KILOBYTE", "MEGABYTE", "GIGABYTE"}

\* engine.py refers to LockedVariable.NONE (lines 53, 92, 272); the member is
\* taken from the enumeration {NONE, RATE, PAYLOAD, VOLUME} of the
\* specification, the enum of constants.py listing RATE, PAYLOAD and VOLUME.
NONE == "NONE"
LockedVariable == {NONE, "RATE", "PAYLOAD", "VOLUME"}

CalculationMode == {"EXACT", "ESTIMATE"}

\* CalculationMode.value, the text of a member, and CalculationMode(text),
\* the member of a text (NoMode where the constructor raises ValueError).
NoMode == "-"
CalculationMode_value(mode) == IF mode = "EXACT" THEN "exact" ELSE "estimate"
CalculationMode_of(text) ==
    IF text = "exact" THEN "EXACT"
    ELSE IF text = "estimate" THEN "ESTIMATE"
    ELSE NoMode

SECONDS_PER_MINUTE == Dec(60)
SECONDS_PER_HOUR == Dec(3600)
SECONDS_PER_DAY == Dec(86400)
SECONDS_PER_MONTH_EXACT == Dec(2629800)
SECONDS_PER_YEAR_EXACT == Dec(31557600)
SECONDS_PER_MONTH_ESTIMATE == Dec(2592000)
SECONDS_PER_YEAR_ESTIMATE == Dec(31536000)

seconds_per_unit(unit, mode) ==
    LET exact_map == [u \in TimeUnit |->
            CASE u = "SECOND" -> Dec(1)
              [] u = "MINUTE" -> SECONDS_PER_MINUTE
              [] u = "HOUR" -> SECONDS_PER_HOUR
              [] u = "DAY" -> SECONDS_PER_DAY
              [] u = "MONTH" -> SECONDS_PER_MONTH_EXACT
              [] u = "YEAR" -> SECONDS_PER_YEAR_EXACT]
        estimate_map == [u \in TimeUnit |->
            CASE u = "SECOND" -> Dec(1)
              [] u = "MINUTE" -> SECONDS_PER_MINUTE
              [] u = "HOUR" -> SECONDS_PER_HOUR
              [] u = "DAY" -> SECONDS_PER_DAY
              [] u = "MONTH" -> SECONDS_PER_MONTH_ESTIMATE
              [] u = "YEAR" -> SECONDS_PER_YEAR_ESTIMATE]
        mapping == IF mode = "EXACT" THEN exact_map ELSE estimate_map
    IN mapping[unit]

BYTES_PER_KB_EXACT == Dec(1024)
BYTES_PER_MB_EXACT == Dec(1048576)
BYTES_PER_GB_EXACT == Dec(1073741824)
BYTES_PER_KB_ESTIMATE == Dec(1000)
BYTES_PER_MB_ESTIMATE == Dec(1000000)
BYTES_PER_GB_ESTIMATE == Dec(1000000000)

bytes_per_unit(unit, mode) ==
    LET exact_map == [u \in DataSizeUnit |->
            CASE u = "BYTE" -> Dec(1)
              [] u = "KILOBYTE" -> BYTES_PER_KB_EXACT
              [] u = "MEGABYTE" -> BYTES_PER_MB_EXACT
              [] u = "GIGABYTE" -> BYTES_PER_GB_EXACT]
        estimate_map == [u \in DataSizeUnit |->
            CASE u = "BYTE" -> Dec(1)
              [] u = "KILOBYTE" -> BYTES_PER_KB_ESTIMATE
              [] u = "MEGABYTE" -> BYTES_PER_MB_ESTIMATE
              [] u = "GIGABYTE" -> BYTES_PER_GB_ESTIMATE]
        mapping == IF mode = "EXACT" THEN exact_map ELSE estimate_map
    IN mapping[unit]

\* ------------------------------------------------------- time_converter.py
\* TimeUnitConverter.set_rate: the events-per-second value it stores.
TimeUnitConverter_set_rate(value, unit) ==
    LET seconds == seconds_per_unit(unit, "EXACT")
    IN DecDiv(value, seconds)

\* TimeUnitConverter.get_rate on a stored events-per-second value.
TimeUnitConverter_get_rate(eps, unit, mode) ==
    LET seconds == seconds_per_unit(unit, mode)
    IN DecMul(eps, seconds)

\* ------------------------------------------------------- data_converter.py
\* list(DataSizeUnit): the units in the order of their definition.
DataSizeUnits == <<"BYTE", "KILOBYTE", "MEGABYTE", "GIGABYTE">>

\* DataSizeConverter.set_size: the byte count it stores.
DataSizeConverter_set_size(value, unit) ==
    DecMul(value, bytes_per_unit(unit, "EXACT"))

\* DataSizeConverter.get_size on a stored byte count.
DataSizeConverter_get_size(bytes, unit, mode) ==
    DecDiv(bytes, bytes_per_unit(unit, mode))

\* Decimal.__ge__: x >= 1.
AtLeastOne(x) == x.c > 0 /\ NumDigits(x.c) + x.e >= 1

\* The loop of best_unit over the units from the i-th down to the first.
RECURSIVE best_unit_from(_, _, _)
best_unit_from(bytes, mode, i) ==
    IF i = 0 THEN "BYTE"
    ELSE IF AtLeastOne(DataSizeConverter_get_size(bytes, DataSizeUnits[i], mode))
    THEN DataSizeUnits[i]
    ELSE best_unit_from(bytes, mode, i - 1)

\* Variant: looks at the sizes of the EXACT mode whatever the mode is.
DataSizeConverter_best_unit_exact(bytes, mode) ==
    best_unit_from(bytes, "EXACT", Len(DataSizeUnits))

\* DataSizeConverter.best_unit on a stored byte count.
DataSizeConverter_best_unit(bytes, mode) ==
    best_unit_from(bytes, mode, Len(DataSizeUnits))

\* ---------------------------------------------------------------- engine.py
\* The engine object: its fields, the signals emitted by the call in
\* progress, in emission order, and what a subscriber reading the engine
\* saw at each of them.
VARIABLES events_per_second, payload_size_bytes, target_volume_bps, locked,
          display_mode, emitted, seen

\* The exception the call in progress has raised, NoRaise when it returned.
VARIABLE raised

\* History: the last mutator call (name and arguments), the engine's fields
\* before it, and the number of mutator calls made; the accessor read since
\* that call, if any, and the value it returned.
VARIABLES op, pre, calls, rd, ret

\* What stands beside the engine: the scenario file on disk and the name the
\* last load returned, a second engine, a DataSizeConverter's _bytes and the
\* unit its best_unit returned.
VARIABLES file, scenario_name, twin, size_in_bytes, best

\* The window on the engine: for each of the three padlock buttons, whether
\* it is checked.
VARIABLE checked

aux == <<file, scenario_name, twin, size_in_bytes, best, checked>>

vars == <<events_per_second, payload_size_bytes, target_volume_bps, locked,
          display_mode, emitted, seen, raised, op, pre, calls, rd, ret,
          file, scenario_name, twin, size_in_bytes, best, checked>>

\* The engine's fields as one record; the methods below map a record to the
\* record after the call.
Engine ==
    [events_per_second |-> events_per_second,
     payload_size_bytes |-> payload_size_bytes,
     target_volume_bps |-> target_volume_bps,
     locked |-> locked,
     display_mode |-> display_mode,
     emitted |-> emitted,
     seen |-> seen,
     raised |-> raised]

\* CalculationEngine.__init__
NewEngine ==
    [events_per_second |-> Zero,
     payload_size_bytes |-> Zero,
     target_volume_bps |-> Zero,
     locked |-> NONE,
     display_mode |-> "EXACT",
     emitted |-> << >>,
     seen |-> << >>,
     raised |-> NoRaise]

\* The fields of the engine that outlive a call.
Fields(s) ==
    [events_per_second |-> s.events_per_second,
     payload_size_bytes |-> s.payload_size_bytes,
     target_volume_bps |-> s.target_volume_bps,
     locked |-> s.locked,
     display_mode |-> s.display_mode]

\* Signal.emit(): the slots run at once, inside the emitting call, and read
\* the engine as it is at that point.
Emit(s, signal) ==
    [s EXCEPT !.emitted = Append(@, signal), !.seen = Append(@, Fields(s))]

\* The call stops with exception exc, the engine being left as s.
Raise(s, exc) == [s EXCEPT !.raised = exc]

set_display_mode(s, mode) ==
    IF mode # s.display_mode
    THEN Emit([s EXCEPT !.display_mode = mode], "mode_changed")
    ELSE s

\* Variant: switches to ESTIMATE whatever the mode is.
toggle_display_mode_to_estimate(s) ==
    set_display_mode(s, "ESTIMATE")

toggle_display_mode(s) ==
    LET new_mode == IF s.display_mode = "ESTIMATE" THEN "EXACT" ELSE "ESTIMATE"
    IN set_display_mode(s, new_mode)

\* Variant: emits lock_changed on every call.
set_locked_variable_always_emits(s, var) ==
    Emit([s EXCEPT !.locked = var], "lock_changed")

set_locked_variable(s, var) ==
    IF var # s.locked
    THEN Emit([s EXCEPT !.locked = var], "lock_changed")
    ELSE s

\* Variant: locks var whatever is locked already.
auto_lock_overrides(s, var) ==
    Emit([s EXCEPT !.locked = var], "lock_changed")

auto_lock(s, var) ==
    IF s.locked = NONE
    THEN Emit([s EXCEPT !.locked = var], "lock_changed")
    ELSE s

\* Variant: auto-locks RATE on a zero value too.
set_rate_always_locks(s, value, unit) ==
    LET s1 == [s EXCEPT !.events_per_second = TimeUnitConverter_set_rate(value, unit)]
        s2 == auto_lock(s1, "RATE")
        should_solve_payload ==
            /\ s2.target_volume_bps # Zero
            /\ s2.events_per_second # Zero
            /\ (s2.locked = "VOLUME" \/ s2.payload_size_bytes = Zero)
        s3 == IF should_solve_payload
              THEN [s2 EXCEPT !.payload_size_bytes =
                        DecDiv(s2.target_volume_bps, s2.events_per_second)]
              ELSE s2
    IN Emit(Emit(s3, "rates_changed"), "storage_changed")

\* Variant: resolves the payload from the target only when VOLUME is locked.
set_rate_volume_only(s, value, unit) ==
    LET s1 == [s EXCEPT !.events_per_second = TimeUnitConverter_set_rate(value, unit)]
        s2 == IF value # Zero THEN auto_lock(s1, "RATE") ELSE s1
        should_solve_payload ==
            /\ s2.target_volume_bps # Zero
            /\ s2.events_per_second # Zero
            /\ s2.locked = "VOLUME"
        s3 == IF should_solve_payload
              THEN [s2 EXCEPT !.payload_size_bytes =
                        DecDiv(s2.target_volume_bps, s2.events_per_second)]
              ELSE s2
    IN Emit(Emit(s3, "rates_changed"), "storage_changed")

\* Variant: resolves the payload from the target whatever is locked.
set_rate_always_solves(s, value, unit) ==
    LET s1 == [s EXCEPT !.events_per_second = TimeUnitConverter_set_rate(value, unit)]
        s2 == IF value # Zero THEN auto_lock(s1, "RATE") ELSE s1
        should_solve_payload ==
            /\ s2.target_volume_bps # Zero
            /\ s2.events_per_second # Zero
        s3 == IF should_solve_payload
              THEN [s2 EXCEPT !.payload_size_bytes =
                        DecDiv(s2.target_volume_bps, s2.events_per_second)]
              ELSE s2
    IN Emit(Emit(s3, "rates_changed"), "storage_changed")

set_rate(s, value, unit) ==
    LET s1 == [s EXCEPT !.events_per_second = TimeUnitConverter_set_rate(value, unit)]
        s2 == IF value # Zero THEN auto_lock(s1, "RATE") ELSE s1
        should_solve_payload ==
            /\ s2.target_volume_bps # Zero
            /\ s2.events_per_second # Zero
            /\ (s2.locked = "VOLUME" \/ s2.payload_size_bytes = Zero)
        s3 == IF should_solve_payload
              THEN [s2 EXCEPT !.payload_size_bytes =
                        DecDiv(s2.target_volume_bps, s2.events_per_second)]
              ELSE s2
    IN Emit(Emit(s3, "rates_changed"), "storage_changed")

\* A set_rate call as its caller sees it: the division of line 105 or of lines
\* 119-121 may raise, and the call then stops there.
set_rate_call(s, value, unit) ==
    LET seconds == seconds_per_unit(unit, "EXACT")
        s1 == [s EXCEPT !.events_per_second = TimeUnitConverter_set_rate(value, unit)]
        s2 == IF value # Zero THEN auto_lock(s1, "RATE") ELSE s1
        should_solve_payload ==
            /\ s2.target_volume_bps # Zero
            /\ s2.events_per_second # Zero
            /\ (s2.locked = "VOLUME" \/ s2.payload_size_bytes = Zero)
    IN IF DivRaises(value, seconds) # NoRaise
       THEN Raise(s, DivRaises(value, seconds))
       ELSE IF /\ should_solve_payload
               /\ DivRaises(s2.target_volume_bps, s2.events_per_second) # NoRaise
       THEN Raise(s2, DivRaises(s2.target_volume_bps, s2.events_per_second))
       ELSE set_rate(s, value, unit)

\* Variant: converts the value with the factor of the display mode.
set_payload_size_display_factor(s, value, unit) ==
    LET s1 == [s EXCEPT !.payload_size_bytes =
                    DecMul(value, bytes_per_unit(unit, s.display_mode))]
        s2 == IF s1.payload_size_bytes # Zero THEN auto_lock(s1, "PAYLOAD") ELSE s1
        should_solve_rate ==
            /\ s2.target_volume_bps # Zero
            /\ s2.payload_size_bytes # Zero
            /\ (s2.locked = "VOLUME" \/ s2.events_per_second = Zero)
        s3 == IF should_solve_rate
              THEN LET new_rate == DecDiv(s2.target_volume_bps, s2.payload_size_bytes)
                   IN Emit([s2 EXCEPT !.events_per_second =
                                TimeUnitConverter_set_rate(new_rate, "SECOND")],
                           "rates_changed")
              ELSE s2
    IN Emit(s3, "storage_changed")

\* Variant: resolves the rate from the target whatever is locked.
set_payload_size_always_solves(s, value, unit) ==
    LET s1 == [s EXCEPT !.payload_size_bytes =
                    DecMul(value, bytes_per_unit(unit, "EXACT"))]
        s2 == IF s1.payload_size_bytes # Zero THEN auto_lock(s1, "PAYLOAD") ELSE s1
        should_solve_rate ==
            /\ s2.target_volume_bps # Zero
            /\ s2.payload_size_bytes # Zero
        s3 == IF should_solve_rate
              THEN LET new_rate == DecDiv(s2.target_volume_bps, s2.payload_size_bytes)
                   IN Emit([s2 EXCEPT !.events_per_second =
                                TimeUnitConverter_set_rate(new_rate, "SECOND")],
                           "rates_changed")
              ELSE s2
    IN Emit(s3, "storage_changed")

\* Variant: announces the rate at the end of the call as well as where it is
\* resolved.
set_payload_size_announces_rate(s, value, unit) ==
    LET s1 == [s EXCEPT !.payload_size_bytes =
                    DecMul(value, bytes_per_unit(unit, "EXACT"))]
        s2 == IF s1.payload_size_bytes # Zero THEN auto_lock(s1, "PAYLOAD") ELSE s1
        should_solve_rate ==
            /\ s2.target_volume_bps # Zero
            /\ s2.payload_size_bytes # Zero
            /\ (s2.locked = "VOLUME" \/ s2.events_per_second = Zero)
        s3 == IF should_solve_rate
              THEN LET new_rate == DecDiv(s2.target_volume_bps, s2.payload_size_bytes)
                   IN Emit([s2 EXCEPT !.events_per_second =
                                TimeUnitConverter_set_rate(new_rate, "SECOND")],
                           "rates_changed")
              ELSE s2
    IN Emit(Emit(s3, "rates_changed"), "storage_changed")

set_payload_size(s, value, unit) ==
    LET s1 == [s EXCEPT !.payload_size_bytes =
                    DecMul(value, bytes_per_unit(unit, "EXACT"))]
        s2 == IF s1.payload_size_bytes # Zero THEN auto_lock(s1, "PAYLOAD") ELSE s1
        should_solve_rate ==
            /\ s2.target_volume_bps # Zero
            /\ s2.payload_size_bytes # Zero
            /\ (s2.locked = "VOLUME" \/ s2.events_per_second = Zero)
        s3 == IF should_solve_rate
              THEN LET new_rate == DecDiv(s2.target_volume_bps, s2.payload_size_bytes)
                   IN Emit([s2 EXCEPT !.events_per_second =
                                TimeUnitConverter_set_rate(new_rate, "SECOND")],
                           "rates_changed")
              ELSE s2
    IN Emit(s3, "storage_changed")

\* A set_payload_size call as its caller sees it: the product of line 150 or
\* the division of line 163 may raise.
set_payload_size_call(s, value, unit) ==
    LET factor == bytes_per_unit(unit, "EXACT")
        s1 == [s EXCEPT !.payload_size_bytes = DecMul(value, factor)]
        s2 == IF s1.payload_size_bytes # Zero THEN auto_lock(s1, "PAYLOAD") ELSE s1
        should_solve_rate ==
            /\ s2.target_volume_bps # Zero
            /\ s2.payload_size_bytes # Zero
            /\ (s2.locked = "VOLUME" \/ s2.events_per_second = Zero)
    IN IF MulRaises(value, factor) # NoRaise
       THEN Raise(s, MulRaises(value, factor))
       ELSE IF /\ should_solve_rate
               /\ DivRaises(s2.target_volume_bps, s2.payload_size_bytes) # NoRaise
       THEN Raise(s2, DivRaises(s2.target_volume_bps, s2.payload_size_bytes))
       ELSE set_payload_size(s, value, unit)

\* Variant: converts with the ESTIMATE factors.
target_bps_of_estimate(value, size_unit, time_unit) ==
    LET target_bytes == DecMul(value, bytes_per_unit(size_unit, "ESTIMATE"))
    IN DecDiv(target_bytes, seconds_per_unit(time_unit, "ESTIMATE"))

\* The bytes-per-second value set_target_throughput computes (lines 224-225).
target_bps_of(value, size_unit, time_unit) ==
    LET target_bytes == DecMul(value, bytes_per_unit(size_unit, "EXACT"))
    IN DecDiv(target_bytes, seconds_per_unit(time_unit, "EXACT"))

\* Variant: stores the target and never solves rate or payload.
set_target_throughput_store_only(s, value, size_unit, time_unit) ==
    LET target_bps == target_bps_of(value, size_unit, time_unit)
        s1 == [s EXCEPT !.target_volume_bps = target_bps]
        s2 == IF target_bps # Zero THEN auto_lock(s1, "VOLUME") ELSE s1
    IN Emit(s2, "storage_changed")

\* Variant: the default bias (hold rate, else hold payload) comes before the
\* lock is looked at.
set_target_throughput_bias_first(s, value, size_unit, time_unit) ==
    LET target_bps == target_bps_of(value, size_unit, time_unit)
        s1 == [s EXCEPT !.target_volume_bps = target_bps]
        s2 == IF target_bps # Zero THEN auto_lock(s1, "VOLUME") ELSE s1
        has_rate == s2.events_per_second # Zero
        has_payload == s2.payload_size_bytes # Zero
    IN IF has_rate
       THEN Emit([s2 EXCEPT !.payload_size_bytes =
                      DecDiv(target_bps, s2.events_per_second)],
                 "storage_changed")
       ELSE IF has_payload
       THEN LET new_rate == DecDiv(target_bps, s2.payload_size_bytes)
            IN Emit(Emit([s2 EXCEPT !.events_per_second =
                              TimeUnitConverter_set_rate(new_rate, "SECOND")],
                         "rates_changed"), "storage_changed")
       ELSE Emit(s2, "storage_changed")

\* Variant: silent when the volume is the locked variable.
set_target_throughput_volume_silent(s, value, size_unit, time_unit) ==
    LET target_bps == target_bps_of(value, size_unit, time_unit)
        s1 == [s EXCEPT !.target_volume_bps = target_bps]
        s2 == IF target_bps # Zero THEN auto_lock(s1, "VOLUME") ELSE s1
        has_rate == s2.events_per_second # Zero
        has_payload == s2.payload_size_bytes # Zero
    IN IF s2.locked = "RATE" /\ has_rate
       THEN Emit([s2 EXCEPT !.payload_size_bytes =
                      DecDiv(target_bps, s2.events_per_second)],
                 "storage_changed")
       ELSE IF s2.locked = "PAYLOAD" /\ has_payload
       THEN LET new_rate == DecDiv(target_bps, s2.payload_size_bytes)
            IN Emit(Emit([s2 EXCEPT !.events_per_second =
                              TimeUnitConverter_set_rate(new_rate, "SECOND")],
                         "rates_changed"), "storage_changed")
       ELSE IF s2.locked = "VOLUME"
       THEN s2
       ELSE IF has_rate
       THEN Emit([s2 EXCEPT !.payload_size_bytes =
                      DecDiv(target_bps, s2.events_per_second)],
                 "storage_changed")
       ELSE IF has_payload
       THEN LET new_rate == DecDiv(target_bps, s2.payload_size_bytes)
            IN Emit(Emit([s2 EXCEPT !.events_per_second =
                              TimeUnitConverter_set_rate(new_rate, "SECOND")],
                         "rates_changed"), "storage_changed")
       ELSE Emit(s2, "storage_changed")

\* Variant: a zero target is stored and nothing is solved from it.
set_target_throughput_zero_stores(s, value, size_unit, time_unit) ==
    LET target_bps == target_bps_of(value, size_unit, time_unit)
        s1 == [s EXCEPT !.target_volume_bps = target_bps]
        s2 == IF target_bps # Zero THEN auto_lock(s1, "VOLUME") ELSE s1
        has_rate == s2.events_per_second # Zero
        has_payload == s2.payload_size_bytes # Zero
    IN IF target_bps = Zero
       THEN Emit(s2, "storage_changed")
       ELSE IF s2.locked = "RATE" /\ has_rate
       THEN Emit([s2 EXCEPT !.payload_size_bytes =
                      DecDiv(target_bps, s2.events_per_second)],
                 "storage_changed")
       ELSE IF s2.locked = "PAYLOAD" /\ has_payload
       THEN LET new_rate == DecDiv(target_bps, s2.payload_size_bytes)
            IN Emit(Emit([s2 EXCEPT !.events_per_second =
                              TimeUnitConverter_set_rate(new_rate, "SECOND")],
                         "rates_changed"), "storage_changed")
       ELSE IF s2.locked = "VOLUME"
       THEN Emit(s2, "storage_changed")
       ELSE IF has_rate
       THEN Emit([s2 EXCEPT !.payload_size_bytes =
                      DecDiv(target_bps, s2.events_per_second)],
                 "storage_changed")
       ELSE IF has_payload
       THEN LET new_rate == DecDiv(target_bps, s2.payload_size_bytes)
            IN Emit(Emit([s2 EXCEPT !.events_per_second =
                              TimeUnitConverter_set_rate(new_rate, "SECOND")],
                         "rates_changed"), "storage_changed")
       ELSE Emit(s2, "storage_changed")

set_target_throughput(s, value, size_unit, time_unit) ==
    LET target_bps == target_bps_of(value, size_unit, time_unit)
        s1 == [s EXCEPT !.target_volume_bps = target_bps]
        s2 == IF target_bps # Zero THEN auto_lock(s1, "VOLUME") ELSE s1
        has_rate == s2.events_per_second # Zero
        has_payload == s2.payload_size_bytes # Zero
    IN IF s2.locked = "RATE" /\ has_rate
       THEN Emit([s2 EXCEPT !.payload_size_bytes =
                      DecDiv(target_bps, s2.events_per_second)],
                 "storage_changed")
       ELSE IF s2.locked = "PAYLOAD" /\ has_payload
       THEN LET new_rate == DecDiv(target_bps, s2.payload_size_bytes)
            IN Emit(Emit([s2 EXCEPT !.events_per_second =
                              TimeUnitConverter_set_rate(new_rate, "SECOND")],
                         "rates_changed"), "storage_changed")
       ELSE IF s2.locked = "VOLUME"
       THEN Emit(s2, "storage_changed")
       ELSE IF has_rate
       THEN Emit([s2 EXCEPT !.payload_size_bytes =
                      DecDiv(target_bps, s2.events_per_second)],
                 "storage_changed")
       ELSE IF has_payload
       THEN LET new_rate == DecDiv(target_bps, s2.payload_size_bytes)
            IN Emit(Emit([s2 EXCEPT !.events_per_second =
                              TimeUnitConverter_set_rate(new_rate, "SECOND")],
                         "rates_changed"), "storage_changed")
       ELSE Emit(s2, "storage_changed")

\* A set_target_throughput call as its caller sees it: the conversion of lines
\* 224-225 or the division of the branch taken (lines 230-256) may raise.
set_target_throughput_call(s, value, size_unit, time_unit) ==
    LET factor == bytes_per_unit(size_unit, "EXACT")
        seconds == seconds_per_unit(time_unit, "EXACT")
        target_bps == target_bps_of(value, size_unit, time_unit)
        s1 == [s EXCEPT !.target_volume_bps = target_bps]
        s2 == IF target_bps # Zero THEN auto_lock(s1, "VOLUME") ELSE s1
        has_rate == s2.events_per_second # Zero
        has_payload == s2.payload_size_bytes # Zero
        branch ==
            IF s2.locked = "RATE" /\ has_rate THEN DivRaises(target_bps, s2.events_per_second)
            ELSE IF s2.locked = "PAYLOAD" /\ has_payload
            THEN DivRaises(target_bps, s2.payload_size_bytes)
            ELSE IF s2.locked = "VOLUME" THEN NoRaise
            ELSE IF has_rate THEN DivRaises(target_bps, s2.events_per_second)
            ELSE IF has_payload THEN DivRaises(target_bps, s2.payload_size_bytes)
            ELSE NoRaise
    IN IF MulRaises(value, factor) # NoRaise
       THEN Raise(s, MulRaises(value, factor))
       ELSE IF DivRaises(DecMul(value, factor), seconds) # NoRaise
       THEN Raise(s, DivRaises(DecMul(value, factor), seconds))
       ELSE IF branch # NoRaise
       THEN Raise(s2, branch)
       ELSE set_target_throughput(s, value, size_unit, time_unit)

\* Variant: announces the lock only when it changes.
reset_lock_if_changed(s) ==
    LET s1 == [s EXCEPT !.events_per_second = Zero,
                        !.payload_size_bytes = Zero,
                        !.target_volume_bps = Zero]
        s2 == Emit(Emit(s1, "rates_changed"), "storage_changed")
        s3 == IF s2.locked # NONE
              THEN Emit([s2 EXCEPT !.locked = NONE], "lock_changed")
              ELSE s2
    IN Emit(s3, "reset_occurred")

\* Variant: the stored target outlives the reset.
reset_keeps_target(s) ==
    LET s1 == [s EXCEPT !.events_per_second = Zero,
                        !.payload_size_bytes = Zero,
                        !.locked = NONE]
    IN Emit(Emit(Emit(Emit(s1, "rates_changed"), "storage_changed"),
                 "lock_changed"), "reset_occurred")

reset(s) ==
    LET s1 == [s EXCEPT !.events_per_second = Zero,
                        !.payload_size_bytes = Zero,
                        !.target_volume_bps = Zero,
                        !.locked = NONE]
    IN Emit(Emit(Emit(Emit(s1, "rates_changed"), "storage_changed"),
                 "lock_changed"), "reset_occurred")

\* Accessors.
\* Variant: no fallback to the stored target.
data_throughput_bytes_per_second_computed_only(s) ==
    DecMul(s.events_per_second, s.payload_size_bytes)

data_throughput_bytes_per_second(s) ==
    LET computed == DecMul(s.events_per_second, s.payload_size_bytes)
    IN IF computed = Zero /\ s.target_volume_bps # Zero
       THEN s.target_volume_bps
       ELSE computed

\* Variant: always converts with the EXACT factor.
get_data_throughput_bytes_exact(s, time_unit) ==
    LET seconds == seconds_per_unit(time_unit, "EXACT")
    IN DecMul(data_throughput_bytes_per_second(s), seconds)

get_data_throughput_bytes(s, time_unit) ==
    LET seconds == seconds_per_unit(time_unit, s.display_mode)
    IN DecMul(data_throughput_bytes_per_second(s), seconds)

\* The exception get_data_throughput_bytes raises, NoRaise when it returns:
\* the product of line 185 or of line 192 may overflow.
get_data_throughput_bytes_raises(s, time_unit) ==
    LET seconds == seconds_per_unit(time_unit, s.display_mode)
    IN IF MulRaises(s.events_per_second, s.payload_size_bytes) # NoRaise
       THEN MulRaises(s.events_per_second, s.payload_size_bytes)
       ELSE MulRaises(data_throughput_bytes_per_second(s), seconds)

pending_target_bytes_per_second(s) == s.target_volume_bps

\* ------------------------------------------------------------------ inputs
\* The values and units the calls are made with.
Values == {Dec(0), Dec(1), Dec(3)}
RateUnits == {"SECOND", "MINUTE"}
SizeUnits == {"BYTE", "KILOBYTE"}
ReadUnits == {"SECOND", "MONTH"}

NoArg == "-"

\* A file as load meets it: whether it can be read, whether its text is JSON,
\* and the object the text stands for, a record of the keys it has.
\* No file at the path:
NoFile == [readable |-> FALSE, json |-> FALSE, data |-> << >>]

\* The engine at the start of a call: no signal emitted yet, nothing raised.
Entry == [Engine EXCEPT !.emitted = << >>, !.seen = << >>, !.raised = NoRaise]

NoRead == [name |-> NoArg, time_unit |-> NoArg, size_unit |-> NoArg, mode |-> NoArg]

\* A call of a mutator that leaves the engine as s2.
Call(name, value, size_unit, time_unit, arg, s2) ==
    /\ calls' = calls + 1
    /\ op' = [name |-> name, value |-> value, size_unit |-> size_unit,
              time_unit |-> time_unit, arg |-> arg]
    /\ pre' = Fields(Engine)
    /\ rd' = NoRead
    /\ ret' = Zero
    /\ events_per_second' = s2.events_per_second
    /\ payload_size_bytes' = s2.payload_size_bytes
    /\ target_volume_bps' = s2.target_volume_bps
    /\ locked' = s2.locked
    /\ display_mode' = s2.display_mode
    /\ emitted' = s2.emitted
    /\ seen' = s2.seen
    /\ raised' = s2.raised

\* The same, nothing beside the engine being touched.
Mutate(name, value, size_unit, time_unit, arg, s2) ==
    /\ Call(name, value, size_unit, time_unit, arg, s2)
    /\ UNCHANGED aux

\* A call of an accessor that raises exc or, exc being NoRaise, returns r.
Read(name, time_unit, exc, r) ==
    /\ rd' = [NoRead EXCEPT !.name = name, !.time_unit = time_unit]
    /\ raised' = exc
    /\ ret' = IF exc = NoRaise THEN r ELSE Zero
    /\ UNCHANGED <<events_per_second, payload_size_bytes, target_volume_bps,
                   locked, display_mode, emitted, seen, op, pre, calls>>
    /\ UNCHANGED aux

\* The variables that have a padlock button.
Padlocks == {"RATE", "PAYLOAD", "VOLUME"}

\* The padlock buttons as the panels construct them on a new engine: each
\* setChecked(engine.locked_variable == its variable).
NewPadlocks == [var \in Padlocks |-> NewEngine.locked = var]

Init ==
    /\ events_per_second = NewEngine.events_per_second
    /\ payload_size_bytes = NewEngine.payload_size_bytes
    /\ target_volume_bps = NewEngine.target_volume_bps
    /\ locked = NewEngine.locked
    /\ display_mode = NewEngine.display_mode
    /\ emitted = NewEngine.emitted
    /\ seen = NewEngine.seen
    /\ raised = NewEngine.raised
    /\ op = [name |-> "__init__", value |-> Zero, size_unit |-> NoArg,
             time_unit |-> NoArg, arg |-> NoArg]
    /\ pre = Fields(NewEngine)
    /\ calls = 0
    /\ rd = NoRead
    /\ ret = Zero
    /\ file = NoFile
    /\ scenario_name = ""
    /\ twin = NewEngine
    /\ size_in_bytes = Zero
    /\ best = NoArg
    /\ checked = NewPadlocks

SetRate ==
    /\ calls < MaxCalls
    /\ \E value \in Values, unit \in RateUnits :
        Mutate("set_rate", value, NoArg, unit, NoArg,
               set_rate_call(Entry, value, unit))

SetPayloadSize ==
    /\ calls < MaxCalls
    /\ \E value \in Values, unit \in SizeUnits :
        Mutate("set_payload_size", value, unit, NoArg, NoArg,
               set_payload_size_call(Entry, value, unit))

SetTargetThroughput ==
    /\ calls < MaxCalls
    /\ \E value \in Values, size_unit \in SizeUnits, time_unit \in RateUnits :
        Mutate("set_target_throughput", value, size_unit, time_unit, NoArg,
               set_target_throughput_call(Entry, value, size_unit, time_unit))

SetLockedVariable ==
    /\ calls < MaxCalls
    /\ \E var \in LockedVariable :
        Mutate("set_locked_variable", Zero, NoArg, NoArg, var,
               set_locked_variable(Entry, var))

SetDisplayMode ==
    /\ calls < MaxCalls
    /\ \E mode \in CalculationMode :
        Mutate("set_display_mode", Zero, NoArg, NoArg, mode,
               set_display_mode(Entry, mode))

ToggleDisplayMode ==
    /\ calls < MaxCalls
    /\ Mutate("toggle_display_mode", Zero, NoArg, NoArg, NoArg,
           toggle_display_mode(Entry))

Reset ==
    /\ calls < MaxCalls
    /\ Mutate("reset", Zero, NoArg, NoArg, NoArg, reset(Entry))

GetDataThroughputBytes ==
    \E time_unit \in ReadUnits :
        Read("get_data_throughput_bytes", time_unit,
             get_data_throughput_bytes_raises(Engine, time_unit),
             get_data_throughput_bytes(Engine, time_unit))

Next ==
    \/ SetRate
    \/ SetPayloadSize
    \/ SetTargetThroughput
    \/ SetLockedVariable
    \/ SetDisplayMode
    \/ ToggleDisplayMode
    \/ Reset
    \/ GetDataThroughputBytes

Spec == Init /\ [][Next]_vars

\* ------------------------------------------------- the volume-locked scenario
\* tests/test_engine.py, test_volume_locked_edit_rate_recalculates_payload:
\* on a new engine set_rate(a, SECOND), set_payload_size(b, BYTE),
\* set_target_throughput(a * b, BYTE, SECOND), then set_rate(c, SECOND), for
\* any non-zero a, b and c.
TestValues == {Dec(-1), Dec(2), Dec(3), Dec(100), Dec(200), Dec(500)}

TestSetRate ==
    /\ calls = 0
    /\ \E a \in TestValues :
        Mutate("set_rate", a, NoArg, "SECOND", NoArg,
               set_rate_call(Entry, a, "SECOND"))

TestSetPayloadSize ==
    /\ calls = 1
    /\ \E b \in TestValues :
        Mutate("set_payload_size", b, "BYTE", NoArg, NoArg,
               set_payload_size_call(Entry, b, "BYTE"))

TestSetTargetThroughput ==
    /\ calls = 2
    /\ LET volume == DecMul(events_per_second, payload_size_bytes)
       IN Mutate("set_target_throughput", volume, "BYTE", "SECOND", NoArg,
                 set_target_throughput_call(Entry, volume, "BYTE", "SECOND"))

TestEditRate ==
    /\ calls = 3
    /\ \E c \in TestValues :
        Mutate("set_rate", c, NoArg, "SECOND", NoArg,
               set_rate_call(Entry, c, "SECOND"))

NextVolumeTest ==
    \/ TestSetRate
    \/ TestSetPayloadSize
    \/ TestSetTargetThroughput
    \/ TestEditRate

SpecVolumeTest == Init /\ [][NextVolumeTest]_vars

\* ------------------------------------------------ calls with any magnitude
\* The mutators and the accessor called with zero, negative and very large
\* values.
MagnitudeValues == {Dec(0), Dec(-3), Huge}

MagnitudeSetRate ==
    /\ calls < MaxCalls
    /\ \E value \in MagnitudeValues, unit \in RateUnits :
        Mutate("set_rate", value, NoArg, unit, NoArg,
               set_rate_call(Entry, value, unit))

MagnitudeSetPayloadSize ==
    /\ calls < MaxCalls
    /\ \E value \in MagnitudeValues, unit \in SizeUnits :
        Mutate("set_payload_size", value, unit, NoArg, NoArg,
               set_payload_size_call(Entry, value, unit))

MagnitudeSetTargetThroughput ==
    /\ calls < MaxCalls
    /\ \E value \in MagnitudeValues, size_unit \in SizeUnits, time_unit \in RateUnits :
        Mutate("set_target_throughput", value, size_unit, time_unit, NoArg,
               set_target_throughput_call(Entry, value, size_unit, time_unit))

NextMagnitudes ==
    \/ MagnitudeSetRate
    \/ MagnitudeSetPayloadSize
    \/ MagnitudeSetTargetThroughput
    \/ SetLockedVariable
    \/ SetDisplayMode
    \/ ToggleDisplayMode
    \/ Reset
    \/ GetDataThroughputBytes

SpecMagnitudes == Init /\ [][NextMagnitudes]_vars

\* ------------------------------------------ persistence/scenario_manager.py
FORMAT_VERSION == "0.1.0"

\* ScenarioManager.save: the file it writes.
save(s, name) ==
    [readable |-> TRUE,
     json |-> TRUE,
     data |-> [napkin_calc_version |-> FORMAT_VERSION,
               scenario_name |-> name,
               events_per_second |-> Decimal_str(s.events_per_second),
               payload_size_bytes |-> Decimal_str(s.payload_size_bytes),
               display_mode |-> CalculationMode_value(s.display_mode)]]

\* dict.get(key, default)
Get(data, key, default) == IF key \in DOMAIN data THEN data[key] ELSE default

\* The three engine calls of load, a call that raises ending them: s1 is
\* the engine after set_rate, s2 the engine after set_payload_size.
restore_display_mode(s2, mode) ==
    IF s2.raised # NoRaise THEN s2 ELSE set_display_mode(s2, mode)

restore_payload(s1, payload, mode) ==
    IF s1.raised # NoRaise THEN s1
    ELSE restore_display_mode(set_payload_size_call(s1, payload, "BYTE"), mode)

restore(s, eps, payload, mode) ==
    restore_payload(set_rate_call(s, eps, "SECOND"), payload, mode)

\* What load leaves and returns once the engine calls are over.
loaded(s3, data) ==
    [engine |-> s3,
     name |-> IF s3.raised = NoRaise THEN Get(data, "scenario_name", "") ELSE ""]

\* Variant: each value goes to the engine as soon as it is read.
load_value_by_value(s, f) ==
    LET data == f.data
        eps == Decimal_of(data["events_per_second"])
        payload == Decimal_of(data["payload_size_bytes"])
        mode == CalculationMode_of(Get(data, "display_mode", "estimate"))
        s1 == set_rate_call(s, eps.value, "SECOND")
        s2 == set_payload_size_call(s1, payload.value, "BYTE")
        failed(t, exc) == [engine |-> Raise(t, exc), name |-> ""]
    IN IF ~f.readable THEN failed(s, "OSError")
       ELSE IF ~f.json THEN failed(s, "JSONDecodeError")
       ELSE IF "events_per_second" \notin DOMAIN data THEN failed(s, "KeyError")
       ELSE IF ~eps.ok THEN failed(s, "InvalidOperation")
       ELSE IF "payload_size_bytes" \notin DOMAIN data THEN failed(s1, "KeyError")
       ELSE IF ~payload.ok THEN failed(s1, "InvalidOperation")
       ELSE IF mode = NoMode THEN failed(s2, "ValueError")
       ELSE [engine |-> set_display_mode(s2, mode),
             name |-> Get(data, "scenario_name", "")]

\* ScenarioManager.load of file f: the engine it leaves, the exception in its
\* raised field, and the name it returns.
load(s, f) ==
    LET data == f.data
        eps == Decimal_of(data["events_per_second"])
        payload == Decimal_of(data["payload_size_bytes"])
        mode == CalculationMode_of(Get(data, "display_mode", "estimate"))
        failed(exc) == [engine |-> Raise(s, exc), name |-> ""]
    IN IF ~f.readable THEN failed("OSError")
       ELSE IF ~f.json THEN failed("JSONDecodeError")
       ELSE IF "events_per_second" \notin DOMAIN data THEN failed("KeyError")
       ELSE IF ~eps.ok THEN failed("InvalidOperation")
       ELSE IF "payload_size_bytes" \notin DOMAIN data THEN failed("KeyError")
       ELSE IF ~payload.ok THEN failed("InvalidOperation")
       ELSE IF mode = NoMode THEN failed("ValueError")
       ELSE loaded(restore(s, eps.value, payload.value, mode), data)

\* Files made by other hands: a well-formed one, one without the optional
\* keys, one with a zero rate, and one for each way load can fail on a file.
WellFormed ==
    [napkin_calc_version |-> FORMAT_VERSION,
     scenario_name |-> "Chat App",
     events_per_second |-> <<"5">>,
     payload_size_bytes |-> <<"2">>,
     display_mode |-> "exact"]

JsonFile(data) == [readable |-> TRUE, json |-> TRUE, data |-> data]

Files ==
    {NoFile,
     [readable |-> TRUE, json |-> FALSE, data |-> << >>],
     JsonFile(WellFormed),
     JsonFile([events_per_second |-> <<"1", ".", "5", "E", "+", "1">>,
               payload_size_bytes |-> <<"0", ".", "5">>]),
     JsonFile([WellFormed EXCEPT !.events_per_second = <<"0">>,
                                 !.display_mode = "estimate"]),
     JsonFile([scenario_name |-> "Chat App",
               payload_size_bytes |-> <<"2">>,
               display_mode |-> "exact"]),
     JsonFile([scenario_name |-> "Chat App",
               events_per_second |-> <<"5">>,
               display_mode |-> "exact"]),
     JsonFile([WellFormed EXCEPT !.events_per_second = <<"a", "b", "c">>]),
     JsonFile([WellFormed EXCEPT !.payload_size_bytes = <<"1", ".", "2", ".", "3">>]),
     JsonFile([WellFormed EXCEPT !.display_mode = "fast"])}

ScenarioNames == {"", "Video Streaming"}

Save ==
    /\ calls < MaxCalls
    /\ \E name \in ScenarioNames :
        /\ Call("save", Zero, NoArg, NoArg, name, Entry)
        /\ file' = save(Engine, name)
        /\ UNCHANGED <<scenario_name, twin, size_in_bytes, best, checked>>

\* load of the file at a path: one of Files, or the file save has written.
Load ==
    /\ calls < MaxCalls
    /\ \E f \in Files \cup {file} :
        \E result \in {load(Entry, f)} :
            /\ Call("load", Zero, NoArg, NoArg, NoArg, result.engine)
            /\ file' = f
            /\ scenario_name' = result.name
            /\ UNCHANGED <<twin, size_in_bytes, best, checked>>

\* A new engine is constructed and the file is loaded into it.
LoadFresh ==
    /\ op.name = "save"
    /\ rd' = [NoRead EXCEPT !.name = "load"]
    /\ \E result \in {load(NewEngine, file)} :
        /\ twin' = result.engine
        /\ scenario_name' = result.name
    /\ UNCHANGED <<events_per_second, payload_size_bytes, target_volume_bps,
                   locked, display_mode, emitted, seen, raised, op, pre, calls,
                   ret,
                   file, size_in_bytes, best, checked>>

NextScenario ==
    \/ SetRate
    \/ SetPayloadSize
    \/ SetTargetThroughput
    \/ SetLockedVariable
    \/ SetDisplayMode
    \/ Save
    \/ Load
    \/ LoadFresh

SpecScenario == Init /\ [][NextScenario]_vars

\* ------------------------------------------------------------ two engines
\* A second engine, twin, receives every call the first one receives, with
\* the same arguments; its display mode alone is switched independently.
TwinEntry == [twin EXCEPT !.emitted = << >>, !.seen = << >>, !.raised = NoRaise]

beside_engines == <<file, scenario_name, size_in_bytes, best, checked>>

\* The values given to both engines: none and some.
TwinValues == {Dec(0), Dec(3)}

TwinSetRate ==
    /\ calls < MaxCalls
    /\ \E value \in TwinValues, unit \in RateUnits :
        /\ Call("set_rate", value, NoArg, unit, NoArg,
                set_rate_call(Entry, value, unit))
        /\ twin' = set_rate_call(TwinEntry, value, unit)
        /\ UNCHANGED beside_engines

TwinSetPayloadSize ==
    /\ calls < MaxCalls
    /\ \E value \in TwinValues, unit \in SizeUnits :
        /\ Call("set_payload_size", value, unit, NoArg, NoArg,
                set_payload_size_call(Entry, value, unit))
        /\ twin' = set_payload_size_call(TwinEntry, value, unit)
        /\ UNCHANGED beside_engines

TwinSetTargetThroughput ==
    /\ calls < MaxCalls
    /\ \E value \in TwinValues, size_unit \in SizeUnits, time_unit \in RateUnits :
        /\ Call("set_target_throughput", value, size_unit, time_unit, NoArg,
                set_target_throughput_call(Entry, value, size_unit, time_unit))
        /\ twin' = set_target_throughput_call(TwinEntry, value, size_unit, time_unit)
        /\ UNCHANGED beside_engines

TwinSetLockedVariable ==
    /\ calls < MaxCalls
    /\ \E var \in LockedVariable :
        /\ Call("set_locked_variable", Zero, NoArg, NoArg, var,
                set_locked_variable(Entry, var))
        /\ twin' = set_locked_variable(TwinEntry, var)
        /\ UNCHANGED beside_engines

TwinReset ==
    /\ calls < MaxCalls
    /\ Call("reset", Zero, NoArg, NoArg, NoArg, reset(Entry))
    /\ twin' = reset(TwinEntry)
    /\ UNCHANGED beside_engines

\* toggle_display_mode on the second engine alone.
TwinToggleDisplayMode ==
    /\ twin' = toggle_display_mode(TwinEntry)
    /\ UNCHANGED <<events_per_second, payload_size_bytes, target_volume_bps,
                   locked, display_mode, emitted, seen, raised, op, pre, calls,
                   rd, ret>>
    /\ UNCHANGED beside_engines

NextTwin ==
    \/ TwinSetRate
    \/ TwinSetPayloadSize
    \/ TwinSetTargetThroughput
    \/ TwinSetLockedVariable
    \/ TwinReset
    \/ TwinToggleDisplayMode

SpecTwin == Init /\ [][NextTwin]_vars

\* ------------------------------------------------------- the two converters
\* A TimeUnitConverter, its _events_per_second in events_per_second, and a
\* DataSizeConverter, its _bytes in size_in_bytes; op is the last set_rate or
\* set_size call, rd the last accessor call.  The two objects share nothing,
\* and a run uses one of them.
ConverterValues ==
    {Dec(0), Dec(-3), Norm(5, -1), Dec(1), Dec(7), Norm(999, -2), Dec(1000)}

\* The sizes the model tells apart: below 10^12 bytes no unit above GIGABYTE
\* is at least 1 in either mode, so best_unit stays within DataSizeUnits.
BelowTerabyte(bytes) == ~AtLeastOne(DecDiv(bytes, Norm(1, 12)))

TimeConverterInUse == op.name \in {"__init__", "TimeUnitConverter.set_rate"}
DataConverterInUse == op.name \in {"__init__", "DataSizeConverter.set_size"}

engine_fields == <<payload_size_bytes, target_volume_bps, locked, display_mode,
                   emitted, seen, raised, pre, calls, file, scenario_name,
                   twin, checked>>

ConverterSetRate ==
    /\ TimeConverterInUse
    /\ \E value \in ConverterValues, unit \in TimeUnit :
        /\ events_per_second' = TimeUnitConverter_set_rate(value, unit)
        /\ op' = [name |-> "TimeUnitConverter.set_rate", value |-> value,
                  size_unit |-> NoArg, time_unit |-> unit, arg |-> NoArg]
        /\ rd' = NoRead
        /\ ret' = Zero
        /\ best' = NoArg
        /\ UNCHANGED <<size_in_bytes, engine_fields>>

ConverterGetRate ==
    /\ TimeConverterInUse
    /\ \E unit \in TimeUnit, mode \in CalculationMode :
        /\ rd' = [NoRead EXCEPT !.name = "get_rate", !.time_unit = unit, !.mode = mode]
        /\ ret' = TimeUnitConverter_get_rate(events_per_second, unit, mode)
        /\ best' = NoArg
        /\ UNCHANGED <<events_per_second, size_in_bytes, op, engine_fields>>

ConverterSetSize ==
    /\ DataConverterInUse
    /\ \E value \in ConverterValues, unit \in DataSizeUnit :
        /\ BelowTerabyte(DataSizeConverter_set_size(value, unit))
        /\ size_in_bytes' = DataSizeConverter_set_size(value, unit)
        /\ op' = [name |-> "DataSizeConverter.set_size", value |-> value,
                  size_unit |-> unit, time_unit |-> NoArg, arg |-> NoArg]
        /\ rd' = NoRead
        /\ ret' = Zero
        /\ best' = NoArg
        /\ UNCHANGED <<events_per_second, engine_fields>>

ConverterGetSize ==
    /\ DataConverterInUse
    /\ \E unit \in DataSizeUnit, mode \in CalculationMode :
        /\ rd' = [NoRead EXCEPT !.name = "get_size", !.size_unit = unit, !.mode = mode]
        /\ ret' = DataSizeConverter_get_size(size_in_bytes, unit, mode)
        /\ best' = NoArg
        /\ UNCHANGED <<events_per_second, size_in_bytes, op, engine_fields>>

ConverterBestUnit ==
    /\ DataConverterInUse
    /\ \E mode \in CalculationMode :
        /\ rd' = [NoRead EXCEPT !.name = "best_unit", !.mode = mode]
        /\ ret' = Zero
        /\ best' = DataSizeConverter_best_unit(size_in_bytes, mode)
        /\ UNCHANGED <<events_per_second, size_in_bytes, op, engine_fields>>

NextConverters ==
    \/ ConverterSetRate
    \/ ConverterGetRate
    \/ ConverterSetSize
    \/ ConverterGetSize
    \/ ConverterBestUnit

SpecConverters == Init /\ [][NextConverters]_vars

\* ------------------------------------------------------------------ claims
Solvers == {"set_rate", "set_payload_size", "set_target_throughput"}

\* The bytes per second that the arguments of the last call stand for: value
\* times the exact bytes per size unit, over the exact seconds per time unit.
ArgTargetBps ==
    DecDiv(DecMul(op.value, bytes_per_unit(op.size_unit, "EXACT")),
           seconds_per_unit(op.time_unit, "EXACT"))

\* C1: when nothing is locked, set_rate, set_payload_size and
\* set_target_throughput lock RATE, PAYLOAD and VOLUME respectively exactly
\* when the value they store is non-zero; a zero edit leaves the lock NONE.
C1_AutoLock ==
    pre.locked = NONE =>
        /\ op.name = "set_rate" =>
              locked = (IF events_per_second # Zero THEN "RATE" ELSE NONE)
        /\ op.name = "set_payload_size" =>
              locked = (IF payload_size_bytes # Zero THEN "PAYLOAD" ELSE NONE)
        /\ op.name = "set_target_throughput" =>
              locked = (IF target_volume_bps # Zero THEN "VOLUME" ELSE NONE)

C1_Witness ==
    /\ pre.locked = NONE
    /\ op.name = "set_payload_size"
    /\ op.size_unit = "KILOBYTE"
    /\ payload_size_bytes # Zero
    /\ locked = "PAYLOAD"

\* C2: once a variable is locked, set_rate, set_payload_size,
\* set_target_throughput, set_display_mode and toggle_display_mode never
\* change the lock; it changes only by set_locked_variable with another
\* value or by reset, and apart from set_locked_variable(NONE) only reset
\* takes it back to NONE.
C2_LockStability ==
    pre.locked # NONE =>
        /\ op.name \in Solvers \cup {"set_display_mode", "toggle_display_mode"} =>
              locked = pre.locked
        /\ locked # pre.locked =>
              \/ op.name = "reset"
              \/ op.name = "set_locked_variable" /\ op.arg = locked
        /\ locked = NONE =>
              \/ op.name = "reset"
              \/ op.name = "set_locked_variable" /\ op.arg = NONE

C2_Witness ==
    /\ pre.locked = "RATE"
    /\ op.name = "set_target_throughput"
    /\ op.value # Zero
    /\ pre.events_per_second = Zero
    /\ locked = "RATE"

\* C3: with RATE locked and a non-zero rate, set_target_throughput sets the
\* payload to the target's bytes per second divided by the rate and leaves
\* the rate unchanged.
C3_RateLockedSolvesPayload ==
    (op.name = "set_target_throughput" /\ pre.locked = "RATE"
        /\ pre.events_per_second # Zero) =>
        /\ target_volume_bps = ArgTargetBps
        /\ payload_size_bytes = DecDiv(ArgTargetBps, pre.events_per_second)
        /\ events_per_second = pre.events_per_second

C3_Witness ==
    /\ op.name = "set_target_throughput"
    /\ pre.locked = "RATE"
    /\ pre.events_per_second # Zero
    /\ payload_size_bytes # pre.payload_size_bytes
    /\ payload_size_bytes # Zero

\* C4: with PAYLOAD locked and a non-zero payload, set_target_throughput
\* sets the rate to the target's bytes per second divided by the payload and
\* leaves the payload unchanged.
C4_PayloadLockedSolvesRate ==
    (op.name = "set_target_throughput" /\ pre.locked = "PAYLOAD"
        /\ pre.payload_size_bytes # Zero) =>
        /\ target_volume_bps = ArgTargetBps
        /\ events_per_second = DecDiv(ArgTargetBps, pre.payload_size_bytes)
        /\ payload_size_bytes = pre.payload_size_bytes

C4_Witness ==
    /\ op.name = "set_target_throughput"
    /\ pre.locked = "PAYLOAD"
    /\ pre.payload_size_bytes # Zero
    /\ events_per_second # pre.events_per_second
    /\ events_per_second # Zero

\* C5: with VOLUME locked, before the call or by the call's own auto-lock,
\* set_target_throughput only stores the target: rate and payload keep their
\* values, whatever they are.
C5_VolumeLockedStoresOnly ==
    (op.name = "set_target_throughput"
        /\ (pre.locked = "VOLUME" \/ (pre.locked = NONE /\ ArgTargetBps # Zero))) =>
        /\ target_volume_bps = ArgTargetBps
        /\ events_per_second = pre.events_per_second
        /\ payload_size_bytes = pre.payload_size_bytes
        /\ locked = "VOLUME"

C5_Witness ==
    /\ op.name = "set_target_throughput"
    /\ pre.locked = "VOLUME"
    /\ pre.events_per_second # Zero
    /\ pre.payload_size_bytes # Zero
    /\ target_volume_bps # pre.target_volume_bps
    /\ target_volume_bps # Zero

\* C6: on an engine with no lock, no rate and no payload,
\* set_target_throughput(v, size_unit, time_unit) with v # 0 leaves rate and
\* payload at 0, makes the pending target v * exact bytes per size_unit /
\* exact seconds per time_unit, and locks VOLUME.
C6_PendingTarget ==
    (op.name = "set_target_throughput" /\ pre.locked = NONE
        /\ pre.events_per_second = Zero /\ pre.payload_size_bytes = Zero
        /\ op.value # Zero) =>
        /\ events_per_second = Zero
        /\ payload_size_bytes = Zero
        /\ pending_target_bytes_per_second(Engine) = ArgTargetBps
        /\ locked = "VOLUME"

C6_Witness ==
    /\ op.name = "set_target_throughput"
    /\ pre.locked = NONE
    /\ pre.events_per_second = Zero
    /\ pre.payload_size_bytes = Zero
    /\ op.value # Zero
    /\ op.size_unit = "KILOBYTE"
    /\ op.time_unit = "MINUTE"
    /\ locked = "VOLUME"

\* A non-zero target is stored while rate and payload are both 0, and the
\* last call edited the rate or the payload with a non-zero value.
C7_PendingResolved ==
    /\ pre.target_volume_bps # Zero
    /\ pre.events_per_second = Zero
    /\ pre.payload_size_bytes = Zero
    /\ op.name \in {"set_rate", "set_payload_size"}
    /\ op.value # Zero

\* The product of two Decimals without rounding.
ExactProduct(x, y) == Norm(x.c * y.c, x.e + y.e)

\* C7 as claimed: the edit that follows a pending target resolves the other
\* variable so that rate * payload equals the target, whatever the lock, and
\* leaves the target unchanged.
C7_DeferredResolutionExact ==
    C7_PendingResolved =>
        /\ DecMul(events_per_second, payload_size_bytes) = target_volume_bps
        /\ target_volume_bps = pre.target_volume_bps

\* C7 as amended: the edit that follows a pending target resolves the other
\* variable to the target divided by the edited one, rounded to the decimal
\* precision, whatever the lock, and leaves the target unchanged; rate *
\* payload equals the target when that quotient is exact.
C7_DeferredResolution ==
    C7_PendingResolved =>
        /\ target_volume_bps = pre.target_volume_bps
        /\ op.name = "set_rate" =>
              /\ events_per_second # Zero
              /\ payload_size_bytes = DecDiv(target_volume_bps, events_per_second)
        /\ op.name = "set_payload_size" =>
              /\ payload_size_bytes # Zero
              /\ events_per_second = DecDiv(target_volume_bps, payload_size_bytes)
        /\ ExactProduct(events_per_second, payload_size_bytes) = target_volume_bps =>
              DecMul(events_per_second, payload_size_bytes) = target_volume_bps

C7_Witness ==
    /\ C7_PendingResolved
    /\ op.name = "set_rate"
    /\ pre.locked = "PAYLOAD"
    /\ payload_size_bytes # Zero
    /\ DecMul(events_per_second, payload_size_bytes) # target_volume_bps

\* C8: on a new engine, after set_rate(a, SECOND), set_payload_size(b, BYTE)
\* and set_target_throughput(a * b, BYTE, SECOND) with a and b non-zero, a
\* following set_rate(c, SECOND) with c # 0 holds the volume: the rate is c
\* and the payload a * b / c.
C8_VolumeHeldOnRateEdit ==
    calls = 4 =>
        /\ events_per_second = op.value
        /\ payload_size_bytes = DecDiv(pre.target_volume_bps, op.value)

\* C9: whenever rate, payload and stored target are all non-zero, rate *
\* payload equals the target (up to the rounding of the division that solved
\* it), except directly after a set_target_throughput call made with VOLUME
\* locked.
C9_ConstraintInvariant ==
    (events_per_second # Zero /\ payload_size_bytes # Zero
        /\ target_volume_bps # Zero) =>
        \/ DecMul(events_per_second, payload_size_bytes) = target_volume_bps
        \/ payload_size_bytes = DecDiv(target_volume_bps, events_per_second)
        \/ events_per_second = DecDiv(target_volume_bps, payload_size_bytes)
        \/ op.name = "set_target_throughput" /\ locked = "VOLUME"

\* C10: data_throughput_bytes_per_second is the stored target when rate *
\* payload is 0 and the target is not, and rate * payload in every other
\* state; get_data_throughput_bytes(u) is that value times the seconds per u
\* in the display mode.
C10_ThroughputFallback ==
    LET computed == DecMul(events_per_second, payload_size_bytes)
        expected == IF computed = Zero /\ target_volume_bps # Zero
                    THEN target_volume_bps
                    ELSE computed
    IN /\ data_throughput_bytes_per_second(Engine) = expected
       /\ rd.name = "get_data_throughput_bytes" =>
             ret = DecMul(expected, seconds_per_unit(rd.time_unit, display_mode))

C10_Witness ==
    /\ rd.name = "get_data_throughput_bytes"
    /\ rd.time_unit = "MONTH"
    /\ display_mode = "ESTIMATE"
    /\ events_per_second = Zero
    /\ payload_size_bytes = Zero
    /\ target_volume_bps # Zero
    /\ ret # Zero

\* The number of times signal occurs in the sequence of emitted signals.
Count(seq, signal) == Cardinality({i \in 1..Len(seq) : seq[i] = signal})

DisplayModeOps == {"set_display_mode", "toggle_display_mode"}

\* C11: set_display_mode and toggle_display_mode leave the rate, the payload,
\* the stored target and the lock as they were, and a toggle_display_mode
\* call that directly follows another one brings back the display mode that
\* was set before the first of the two.
C11_DisplayModeFrame ==
    /\ [](op.name \in DisplayModeOps =>
            /\ events_per_second = pre.events_per_second
            /\ payload_size_bytes = pre.payload_size_bytes
            /\ target_volume_bps = pre.target_volume_bps
            /\ locked = pre.locked)
    /\ [][(/\ op.name = "toggle_display_mode"
           /\ op'.name = "toggle_display_mode"
           /\ calls' = calls + 1) =>
              display_mode' = pre.display_mode]_vars

C11_Witness ==
    /\ op.name = "toggle_display_mode"
    /\ calls = MaxCalls
    /\ pre.display_mode = "ESTIMATE"
    /\ display_mode = "EXACT"
    /\ events_per_second # Zero
    /\ locked = "RATE"

\* C12: after reset() the rate, the payload and the stored target are 0, so
\* the data throughput is 0, nothing is locked, and the call has emitted
\* rates_changed, storage_changed, lock_changed and reset_occurred once each
\* and nothing else, also when the engine was all-zero and unlocked before.
C12_Reset ==
    op.name = "reset" =>
        /\ events_per_second = Zero
        /\ payload_size_bytes = Zero
        /\ target_volume_bps = Zero
        /\ data_throughput_bytes_per_second(Engine) = Zero
        /\ locked = NONE
        /\ Len(emitted) = 4
        /\ \A signal \in {"rates_changed", "storage_changed", "lock_changed",
                           "reset_occurred"} : Count(emitted, signal) = 1

C12_Witness ==
    /\ op.name = "reset"
    /\ calls > 0
    /\ pre.events_per_second = Zero
    /\ pre.payload_size_bytes = Zero
    /\ pre.target_volume_bps = Zero
    /\ pre.locked = NONE
    /\ Count(emitted, "lock_changed") = 1

\* C20: set_locked_variable(var) emits lock_changed once when var is not the
\* variable locked before the call and nothing when it is; it emits no other
\* signal.
C20_LockChanged ==
    op.name = "set_locked_variable" =>
        /\ locked = op.arg
        /\ emitted = IF op.arg # pre.locked THEN <<"lock_changed">> ELSE << >>

C20_Witness ==
    /\ op.name = "set_locked_variable"
    /\ op.arg = pre.locked
    /\ pre.locked = "VOLUME"
    /\ emitted = << >>

\* C13: whatever values the seven mutators are called with, zero, positive
\* or negative, every division made by a mutator or an accessor has a
\* non-zero divisor, and no call raises.
C13_NoCallRaises == raised = NoRaise

\* The part of C13 about divisors alone.
C13_NoZeroDivisor == raised # "DivisionByZero"

\* C17: a value stored with TimeUnitConverter.set_rate(v, U) is returned by
\* get_rate(U, EXACT), and a value stored with DataSizeConverter.set_size(v, U)
\* is returned by get_size(U, EXACT), for every unit U and every value v.
C17_StoreRoundTrip ==
    /\ (/\ op.name = "TimeUnitConverter.set_rate"
        /\ rd.name = "get_rate"
        /\ rd.time_unit = op.time_unit
        /\ rd.mode = "EXACT") => ret = op.value
    /\ (/\ op.name = "DataSizeConverter.set_size"
        /\ rd.name = "get_size"
        /\ rd.size_unit = op.size_unit
        /\ rd.mode = "EXACT") => ret = op.value

\* The units in which the stored size is at least 1 in the mode.
Qualifying(mode) ==
    {i \in 1..Len(DataSizeUnits) :
        AtLeastOne(DataSizeConverter_get_size(size_in_bytes, DataSizeUnits[i], mode))}

\* C19: best_unit(mode) returns the largest unit, in the order BYTE < KILOBYTE
\* < MEGABYTE < ..., in which get_size(unit, mode) >= 1, and BYTE when there
\* is none (a size that is zero, below one byte, or negative).
C19_BestUnit ==
    rd.name = "best_unit" =>
        LET qualifying == Qualifying(rd.mode)
        IN IF qualifying = {}
           THEN best = "BYTE"
           ELSE \E i \in qualifying :
                    /\ best = DataSizeUnits[i]
                    /\ \A k \in qualifying : k <= i

C19_Witness ==
    /\ rd.name = "best_unit"
    /\ rd.mode = "ESTIMATE"
    /\ best = "MEGABYTE"
    /\ op.name = "DataSizeConverter.set_size"
    /\ op.size_unit = "KILOBYTE"

\* C18: two engines that differ in display mode only and receive the same
\* set_rate, set_payload_size, set_target_throughput, set_locked_variable and
\* reset calls have the same rate, payload, stored target and lock.
C18_DisplayModeNonInterference ==
    /\ twin.events_per_second = events_per_second
    /\ twin.payload_size_bytes = payload_size_bytes
    /\ twin.target_volume_bps = target_volume_bps
    /\ twin.locked = locked

C18_Witness ==
    /\ calls = MaxCalls
    /\ twin.display_mode # display_mode
    /\ pre.display_mode = display_mode
    /\ op.name = "set_payload_size"
    /\ op.size_unit = "KILOBYTE"
    /\ op.value # Zero
    /\ twin.payload_size_bytes = DecMul(op.value, BYTES_PER_KB_EXACT)
    /\ events_per_second # Zero
    /\ target_volume_bps # Zero

\* The ways load fails on a file, by the exception raised: the path cannot
\* be read, the text is not JSON, a key is missing, a decimal cannot be
\* parsed, the display mode is unknown.
LoadFailures ==
    {"OSError", "JSONDecodeError", "KeyError", "InvalidOperation", "ValueError"}

\* C14: when load fails in one of these ways the engine's rate, payload,
\* target, lock and display mode are what they were before the call, and the
\* engine has emitted no signal.
C14_LoadAllOrNothing ==
    (op.name = "load" /\ raised \in LoadFailures) =>
        /\ Fields(Engine) = pre
        /\ emitted = << >>

C14_Witness ==
    /\ op.name = "load"
    /\ raised = "InvalidOperation"
    /\ "events_per_second" \in DOMAIN file.data
    /\ Decimal_of(file.data["events_per_second"]).ok
    /\ events_per_second # Decimal_of(file.data["events_per_second"]).value
    /\ target_volume_bps # Zero
    /\ locked = "VOLUME"

\* C15: after a load that succeeds the rate is the file's events_per_second,
\* the payload the file's payload_size_bytes and the display mode the file's
\* mode, whatever the engine's rate, payload, target and lock were before.
C15_LoadOverwrites ==
    (op.name = "load" /\ raised = NoRaise) =>
        /\ events_per_second = Decimal_of(file.data["events_per_second"]).value
        /\ payload_size_bytes = Decimal_of(file.data["payload_size_bytes"]).value
        /\ display_mode =
               CalculationMode_of(Get(file.data, "display_mode", "estimate"))

\* C16: when an engine is saved and the file is loaded into a new engine,
\* the new engine has the rate, the payload and the display mode of the
\* saved one, and load returns the scenario name given to save.
C16_SaveLoadRoundTrip ==
    (op.name = "save" /\ rd.name = "load") =>
        /\ twin.raised = NoRaise
        /\ twin.events_per_second = events_per_second
        /\ twin.payload_size_bytes = payload_size_bytes
        /\ twin.display_mode = display_mode
        /\ scenario_name = op.arg

C16_Witness ==
    /\ op.name = "save"
    /\ rd.name = "load"
    /\ op.arg = "Video Streaming"
    /\ events_per_second = DecDiv(Dec(1), SECONDS_PER_MINUTE)
    /\ payload_size_bytes = DecMul(Dec(3), BYTES_PER_KB_EXACT)
    /\ file.data["payload_size_bytes"] = <<"3", ".", "0", "7", "E", "+", "3">>

\* ------------------------------------------------- the calls the window makes
\* The engine as the panels drive it: the mutators of Spec, set_locked_variable
\* being called with the variable of a padlock only.
SetLockedVariableFromPanel ==
    /\ calls < MaxCalls
    /\ \E var \in Padlocks :
        Mutate("set_locked_variable", Zero, NoArg, NoArg, var,
               set_locked_variable(Entry, var))

NextPanelCalls ==
    \/ SetRate
    \/ SetPayloadSize
    \/ SetTargetThroughput
    \/ SetLockedVariableFromPanel
    \/ SetDisplayMode
    \/ ToggleDisplayMode
    \/ Reset

SpecPanelCalls == Init /\ [][NextPanelCalls]_vars

\* ------------------------------------------------------- the padlock buttons
\* TrafficPanel._sync_lock_button and DataVolumePanel._sync_lock_buttons, the
\* slots of lock_changed, run at the i-th signal of the call that leaves the
\* engine as s: each button is set from the lock the engine has at that point.
sync_lock_button(c, s, i) ==
    [c EXCEPT !["RATE"] = (s.seen[i].locked = "RATE")]

sync_lock_buttons(c, s, i) ==
    [c EXCEPT !["PAYLOAD"] = (s.seen[i].locked = "PAYLOAD"),
              !["VOLUME"] = (s.seen[i].locked = "VOLUME")]

\* The buttons c after the slots of the signals i, i + 1, ... of that call.
RECURSIVE lock_changed_slots(_, _, _)
lock_changed_slots(c, s, i) ==
    IF i > Len(s.emitted)
    THEN c
    ELSE IF s.emitted[i] = "lock_changed"
    THEN lock_changed_slots(sync_lock_buttons(sync_lock_button(c, s, i), s, i),
                            s, i + 1)
    ELSE lock_changed_slots(c, s, i + 1)

\* A click of the user on a LockButton: the button being checkable
\* (setCheckable(True)), the click first flips its checked state, then
\* clicked is emitted.
LockButton_click(c, var) == [c EXCEPT ![var] = ~@]

beside_window == <<file, scenario_name, twin, size_in_bytes, best>>

\* A click on the padlock of var and its clicked slot (_on_lock_clicked,
\* _on_payload_lock_clicked, _on_volume_lock_clicked).
LockClicked(var) ==
    /\ calls < MaxCalls
    /\ \E s2 \in {set_locked_variable(Entry, var)} :
        /\ Call("set_locked_variable", Zero, NoArg, NoArg, var, s2)
        /\ checked' = lock_changed_slots(LockButton_click(checked, var), s2, 1)
    /\ UNCHANGED beside_window

RateLockClicked == LockClicked("RATE")

PayloadLockClicked == LockClicked("PAYLOAD")

VolumeLockClicked == LockClicked("VOLUME")

\* TrafficPanel._on_field_edited
RateEdited ==
    /\ calls < MaxCalls
    /\ \E value \in Values, unit \in RateUnits :
        \E s2 \in {set_rate_call(Entry, value, unit)} :
            /\ Call("set_rate", value, NoArg, unit, NoArg, s2)
            /\ checked' = lock_changed_slots(checked, s2, 1)
    /\ UNCHANGED beside_window

\* DataVolumePanel._on_payload_edited
PayloadEdited ==
    /\ calls < MaxCalls
    /\ \E value \in Values, unit \in SizeUnits :
        \E s2 \in {set_payload_size_call(Entry, value, unit)} :
            /\ Call("set_payload_size", value, unit, NoArg, NoArg, s2)
            /\ checked' = lock_changed_slots(checked, s2, 1)
    /\ UNCHANGED beside_window

\* DataVolumePanel._on_target_edited
TargetEdited ==
    /\ calls < MaxCalls
    /\ \E value \in Values, size_unit \in SizeUnits, time_unit \in RateUnits :
        \E s2 \in {set_target_throughput_call(Entry, value, size_unit, time_unit)} :
            /\ Call("set_target_throughput", value, size_unit, time_unit, NoArg, s2)
            /\ checked' = lock_changed_slots(checked, s2, 1)
    /\ UNCHANGED beside_window

\* MainWindow._on_reset
ResetClicked ==
    /\ calls < MaxCalls
    /\ \E s2 \in {reset(Entry)} :
        /\ Call("reset", Zero, NoArg, NoArg, NoArg, s2)
        /\ checked' = lock_changed_slots(checked, s2, 1)
    /\ UNCHANGED beside_window

NextPadlocks ==
    \/ RateLockClicked
    \/ PayloadLockClicked
    \/ VolumeLockClicked
    \/ RateEdited
    \/ PayloadEdited
    \/ TargetEdited
    \/ ResetClicked

SpecPadlocks == Init /\ [][NextPadlocks]_vars

\* -------------------------------------------------- notifications and locks
\* C21: every set_rate, set_payload_size and set_target_throughput call emits
\* storage_changed exactly once, whichever branch it takes and whatever state
\* it is made in.
C21_StorageChangedOnce ==
    op.name \in Solvers => Count(emitted, "storage_changed") = 1

C21_Witness ==
    /\ op.name = "set_target_throughput"
    /\ pre.locked = "VOLUME"
    /\ target_volume_bps = pre.target_volume_bps
    /\ events_per_second # Zero
    /\ payload_size_bytes # Zero
    /\ emitted = <<"storage_changed">>

\* C22: the locked variable is held: with RATE locked and a non-zero rate,
\* set_payload_size and set_target_throughput leave the rate as it was; with
\* PAYLOAD locked and a non-zero payload, set_rate and set_target_throughput
\* leave the payload as it was; with VOLUME locked, set_rate and
\* set_payload_size leave the stored target as it was.
C22_LockedHeld ==
    /\ (/\ pre.locked = "RATE"
        /\ pre.events_per_second # Zero
        /\ op.name \in {"set_payload_size", "set_target_throughput"}) =>
            events_per_second = pre.events_per_second
    /\ (/\ pre.locked = "PAYLOAD"
        /\ pre.payload_size_bytes # Zero
        /\ op.name \in {"set_rate", "set_target_throughput"}) =>
            payload_size_bytes = pre.payload_size_bytes
    /\ (/\ pre.locked = "VOLUME"
        /\ op.name \in {"set_rate", "set_payload_size"}) =>
            target_volume_bps = pre.target_volume_bps

C22_Witness ==
    /\ pre.locked = "RATE"
    /\ pre.events_per_second # Zero
    /\ pre.target_volume_bps # Zero
    /\ op.name = "set_payload_size"
    /\ payload_size_bytes # Zero
    /\ payload_size_bytes # pre.payload_size_bytes
    /\ events_per_second = pre.events_per_second

Signals ==
    {"rates_changed", "storage_changed", "mode_changed", "lock_changed",
     "reset_occurred"}

C27_AtMostOncePerKind ==
    \A signal \in Signals : Count(emitted, signal) <= 1

C27_Witness ==
    /\ op.name = "set_payload_size"
    /\ pre.locked = NONE
    /\ emitted = <<"lock_changed", "rates_changed", "storage_changed">>

\* C30: set_target_throughput with a zero value makes the payload zero when
\* RATE is locked and the rate is non-zero, and makes the rate zero when
\* PAYLOAD is locked and the payload is non-zero; the locked variable and
\* the lock stay as they were.
C30_ZeroTarget ==
    (op.name = "set_target_throughput" /\ op.value = Zero) =>
        /\ (pre.locked = "RATE" /\ pre.events_per_second # Zero) =>
              /\ payload_size_bytes = Zero
              /\ events_per_second = pre.events_per_second
              /\ locked = "RATE"
        /\ (pre.locked = "PAYLOAD" /\ pre.payload_size_bytes # Zero) =>
              /\ events_per_second = Zero
              /\ payload_size_bytes = pre.payload_size_bytes
              /\ locked = "PAYLOAD"

C30_Witness ==
    /\ op.name = "set_target_throughput"
    /\ op.value = Zero
    /\ pre.locked = "PAYLOAD"
    /\ pre.payload_size_bytes # Zero
    /\ pre.events_per_second # Zero
    /\ events_per_second = Zero
    /\ target_volume_bps = Zero

\* What set_payload_size looks at before it resolves the rate, read off the
\* state the call has left: the target and the payload are non-zero and
\* either VOLUME is locked or the rate was zero.
ShouldSolveRate ==
    /\ target_volume_bps # Zero
    /\ payload_size_bytes # Zero
    /\ (locked = "VOLUME" \/ pre.events_per_second = Zero)

\* C24: set_payload_size makes the rate the stored target divided by the new
\* payload exactly when the target and the new payload are non-zero and
\* either VOLUME is locked or the rate was zero, and leaves the rate as it
\* was otherwise; it emits storage_changed once on every call and
\* rates_changed once exactly when it has resolved the rate.
C24_SetPayloadSizeSolvesRate ==
    op.name = "set_payload_size" =>
        /\ events_per_second =
              IF ShouldSolveRate
              THEN DecDiv(target_volume_bps, payload_size_bytes)
              ELSE pre.events_per_second
        /\ Count(emitted, "storage_changed") = 1
        /\ Count(emitted, "rates_changed") = IF ShouldSolveRate THEN 1 ELSE 0

C24_Witness ==
    /\ op.name = "set_payload_size"
    /\ locked = "VOLUME"
    /\ pre.events_per_second # Zero
    /\ events_per_second # pre.events_per_second
    /\ events_per_second = DecDiv(target_volume_bps, payload_size_bytes)
    /\ emitted = <<"rates_changed", "storage_changed">>

\* C24 as first stated: the same resolution of the rate, and both
\* rates_changed and storage_changed emitted on every set_payload_size call.
C24_EmitsBothOnEveryCall ==
    op.name = "set_payload_size" =>
        /\ events_per_second =
              IF ShouldSolveRate
              THEN DecDiv(target_volume_bps, payload_size_bytes)
              ELSE pre.events_per_second
        /\ Count(emitted, "rates_changed") = 1
        /\ Count(emitted, "storage_changed") = 1

\* C25: a set_target_throughput call made with a lock set, the branch of the
\* locked variable not applying (RATE locked with a zero rate, PAYLOAD
\* locked with a zero payload), changes neither the rate nor the payload:
\* the default bias is for an engine with no lock.
C25_BiasOnlyWhenUnlocked ==
    (/\ op.name = "set_target_throughput"
     /\ \/ pre.locked = "RATE" /\ pre.events_per_second = Zero
        \/ pre.locked = "PAYLOAD" /\ pre.payload_size_bytes = Zero
        \/ pre.locked = "VOLUME") =>
        /\ events_per_second = pre.events_per_second
        /\ payload_size_bytes = pre.payload_size_bytes

C28_PadlocksInSync ==
    \A var \in Padlocks : checked[var] <=> (locked = var)

\* C29: in the states the window's calls reach (set_locked_variable with
\* RATE, PAYLOAD or VOLUME only), nothing being locked means that the rate,
\* the payload and the stored target are all zero.
C29_UnlockedIsEmpty ==
    locked = NONE =>
        /\ events_per_second = Zero
        /\ payload_size_bytes = Zero
        /\ target_volume_bps = Zero

C29_Witness ==
    /\ op.name = "reset"
    /\ pre.locked = "PAYLOAD"
    /\ pre.events_per_second # Zero
    /\ pre.target_volume_bps # Zero
    /\ locked = NONE

====
